---- MODULE Spec2Model ----
(***************************************************************************)
(* A model of the chord annotator (src/app.py): the tokenizer              *)
(* tokenize_line, the layout/render engine render_chorded_lyrics and the   *)
(* Streamlit script around them (chord-entry form, Reset, Render PNG).     *)
(*                                                                         *)
(* Text is a sequence of one-character strings.  Indices (li, ti) are the  *)
(* 0-based indices of the code; sequences here are 1-based.                *)
(* Horizontal chord offsets are kept doubled (x2 = 2 * x) so that the      *)
(* true division (tok_w - cw) / 2 of the code stays exact.                 *)
(***************************************************************************)
EXTENDS Integers, Sequences, FiniteSets, TLC

VARIABLES
    pc,          \* "input" | "tokenized" | "rendered" | "idle"
    lyrics,      \* the text under work: the line given to tokenize_line, the
                 \* lyrics argument of render, or the text area of the script
    tokens,      \* the value returned by tokenize_line
    chord_map,   \* the chord map passed to render_chorded_lyrics
    title,       \* Optional[str]: {} is None, {s} is the string s
    config,      \* page_width, margin, line_spacing, chord_gap
    fontFiles,   \* the font files the host can load
    image,       \* what render_chorded_lyrics returned (and drew)
    widgets,     \* st.session_state of the text inputs li{li}_ti{ti}
    chords,      \* st.session_state.chords
    identity,    \* how the Streamlit build identifies a keyed widget
    sinceReset   \* "reset" from a Reset until a chord is typed, "render" after
                 \* the Render that follows it, "other" otherwise

vars == <<pc, lyrics, tokens, chord_map, title, config, fontFiles, image,
          widgets, chords, identity, sinceReset>>

------------------------------------------------------------------------------
(* Bounds of the model. *)

\* longest line given to tokenize_line
MaxLine == 5
\* longest lyrics given to render_chorded_lyrics
MaxLen == 4
\* most entries of a chord map given to render_chorded_lyrics
MaxChords == 2

------------------------------------------------------------------------------
(* Characters and strings. *)

\* characters c with c.isspace(), which are also the characters \s matches
Whitespace == {" ", "\t", "\n"}
NonWhitespace == {"a"}
Chars == NonWhitespace \cup Whitespace
\* the line boundaries of str.splitlines among Chars
LineBreaks == {"\n"}

Strings(S, n) == UNION {[1..k -> S] : k \in 0..n}

\* str.isspace(): non-empty and whitespace only
isspace(s) == Len(s) > 0 /\ \A i \in 1..Len(s) : s[i] \in Whitespace

RECURSIVE lstrip(_)
lstrip(s) == IF Len(s) > 0 /\ s[1] \in Whitespace THEN lstrip(Tail(s)) ELSE s

RECURSIVE rstrip(_)
rstrip(s) ==
    IF Len(s) > 0 /\ s[Len(s)] \in Whitespace
    THEN rstrip(SubSeq(s, 1, Len(s) - 1))
    ELSE s

\* str.strip()
strip(s) == rstrip(lstrip(s))

RECURSIVE splitlines_from(_, _, _)
splitlines_from(s, i, cur) ==
    IF i > Len(s) THEN (IF cur = <<>> THEN <<>> ELSE <<cur>>)
    ELSE IF s[i] \in LineBreaks THEN <<cur>> \o splitlines_from(s, i + 1, <<>>)
    ELSE splitlines_from(s, i + 1, Append(cur, s[i]))

\* str.splitlines(): no phantom empty line after a trailing line break
splitlines(s) == splitlines_from(s, 1, <<>>)

------------------------------------------------------------------------------
(* tokenize_line: re.findall(r"\S+|\s+", line). *)

\* length of the longest run of characters of class S starting at s[i]
RECURSIVE Span(_, _, _)
Span(s, i, S) ==
    IF i > Len(s) \/ s[i] \notin S THEN 0 ELSE 1 + Span(s, i + 1, S)

\* length matched at i by one alternative: a class, once or repeated (+)
MatchAlt(alt, s, i) ==
    LET n == Span(s, i, alt.cls)
    IN  IF alt.plus THEN n ELSE (IF n > 0 THEN 1 ELSE 0)

\* the first alternative that matches at i decides, as in a regex alternation
RECURSIVE MatchAt(_, _, _, _)
MatchAt(alts, k, s, i) ==
    IF k > Len(alts) THEN 0
    ELSE IF MatchAlt(alts[k], s, i) > 0 THEN MatchAlt(alts[k], s, i)
    ELSE MatchAt(alts, k + 1, s, i)

\* re.findall: non-overlapping matches left to right; a position where the
\* pattern does not match is skipped
RECURSIVE findall(_, _, _)
findall(alts, s, i) ==
    IF i > Len(s) THEN <<>>
    ELSE LET n == MatchAt(alts, 1, s, i)
         IN  IF n = 0 THEN findall(alts, s, i + 1)
             ELSE <<SubSeq(s, i, i + n - 1)>> \o findall(alts, s, i + n)

\* \S+|\s  : a whitespace run is cut into single characters
tokenize_line_single_space(line) ==
    findall(<<[cls |-> NonWhitespace, plus |-> TRUE],
              [cls |-> Whitespace, plus |-> FALSE]>>, line, 1)

\* \S+|[ ]+  : only blanks count as separators, other whitespace is lost
tokenize_line_blank_only(line) ==
    findall(<<[cls |-> NonWhitespace, plus |-> TRUE],
              [cls |-> {" "}, plus |-> TRUE]>>, line, 1)

tokenize_line(line) ==
    findall(<<[cls |-> NonWhitespace, plus |-> TRUE],
              [cls |-> Whitespace, plus |-> TRUE]>>, line, 1)

------------------------------------------------------------------------------
(* Fonts.  A font is named by its file and size; "default" is the font     *)
(* ImageFont.load_default() returns.  Widths follow a fixed-pitch font in  *)
(* Pillow's basic layout: a text is as wide as its characters together.    *)
(* The pixel values are representative of the fonts at these sizes; what   *)
(* matters below is that the fonts differ and that widths can be odd.      *)

FontFiles == {"DejaVuSansMono.ttf", "DejaVuSans.ttf"}

\* ImageFont.truetype(file, size) raises OSError when the file cannot be read
CanLoad(file, avail) == file \in avail

\* the three truetype calls in one try block, without the except clause:
\* a missing file surfaces to the caller
LoadFontsNoFallback(avail) ==
    IF CanLoad("DejaVuSansMono.ttf", avail) /\ CanLoad("DejaVuSans.ttf", avail)
    THEN [raised |-> FALSE, base_font |-> "DejaVuSansMono28",
          chord_font |-> "DejaVuSansMono24", title_font |-> "DejaVuSans36"]
    ELSE [raised |-> TRUE, base_font |-> "default",
          chord_font |-> "default", title_font |-> "default"]

\* try: three truetype loads; except Exception: three load_default
LoadFonts(avail) ==
    IF CanLoad("DejaVuSansMono.ttf", avail) /\ CanLoad("DejaVuSans.ttf", avail)
    THEN [raised |-> FALSE, base_font |-> "DejaVuSansMono28",
          chord_font |-> "DejaVuSansMono24", title_font |-> "DejaVuSans36"]
    ELSE [raised |-> FALSE, base_font |-> "default",
          chord_font |-> "default", title_font |-> "default"]

\* advance of one character, in pixels
CharWidth(font) ==
    CASE font = "DejaVuSansMono28" -> 17
      [] font = "DejaVuSansMono24" -> 14
      [] font = "DejaVuSans36" -> 23
      [] OTHER -> 6

\* draw.textlength(text, font=font)
textlength(text, font) == Len(text) * CharWidth(font)

\* textheight(font): the height of the bounding box of "Ag"
textheight(font) ==
    CASE font = "DejaVuSansMono28" -> 27
      [] font = "DejaVuSansMono24" -> 23
      [] font = "DejaVuSans36" -> 34
      [] OTHER -> 11

------------------------------------------------------------------------------
(* render_chorded_lyrics. *)

\* Python truthiness of Optional[str]: None and "" are false
Truthy(t) == t # {} /\ t # {<<>>}
TitleText(t) == CHOOSE s \in t : TRUE

\* the defaults of the keyword parameters
DefaultConfig ==
    [page_width |-> 1500, margin |-> 60, line_spacing |-> 18, chord_gap |-> 8]

\* title_h charged whether or not a title is given
title_height_always(t, title_font) == textheight(title_font) + 20

title_height(t, title_font) ==
    IF Truthy(t) THEN textheight(title_font) + 20 ELSE 0

total_height(margin, title_h, line_h, chord_h, chord_gap, line_spacing, n) ==
    margin + title_h + (line_h + chord_h + chord_gap + line_spacing) * n + margin

\* a word advances the cursor by its own width only
WalkStepNoGap(tok, li, ti, x, y, cm, fonts) ==
    IF isspace(tok)
    THEN [x |-> x + textlength(tok, fonts.base_font), draws |-> {}]
    ELSE LET tok_w == textlength(tok, fonts.base_font)
         IN  [x |-> x + tok_w,
              draws |->
                IF <<li, ti>> \in DOMAIN cm
                THEN {[li |-> li, ti |-> ti, txt |-> cm[<<li, ti>>], y |-> y,
                       x2 |-> 2 * x + (tok_w - textlength(cm[<<li, ti>>], fonts.chord_font))]}
                ELSE {}]

\* whitespace tokens are not skipped: they are looked up and advance like words
WalkStepNoSkip(tok, li, ti, x, y, cm, fonts) ==
    LET tok_w == textlength(tok, fonts.base_font)
    IN  [x |-> x + tok_w + (IF isspace(tok) THEN 0 ELSE textlength(<<" ">>, fonts.base_font)),
         draws |->
           IF <<li, ti>> \in DOMAIN cm
           THEN {[li |-> li, ti |-> ti, txt |-> cm[<<li, ti>>], y |-> y,
                  x2 |-> 2 * x + (tok_w - textlength(cm[<<li, ti>>], fonts.chord_font))]}
           ELSE {}]

\* one turn of "for ti, tok in enumerate(tokens)": the cursor after the token
\* and the chord drawn over it, if any
WalkStep(tok, li, ti, x, y, cm, fonts) ==
    IF isspace(tok)
    THEN [x |-> x + textlength(tok, fonts.base_font), draws |-> {}]
    ELSE LET tok_w == textlength(tok, fonts.base_font)
         IN  [x |-> x + tok_w + textlength(<<" ">>, fonts.base_font),
              draws |->
                IF <<li, ti>> \in DOMAIN cm
                THEN {[li |-> li, ti |-> ti, txt |-> cm[<<li, ti>>], y |-> y,
                       x2 |-> 2 * x + (tok_w - textlength(cm[<<li, ti>>], fonts.chord_font))]}
                ELSE {}]

\* the token walk of one line from token ti on: the chords drawn and the
\* cursor at each token reached
RECURSIVE WalkTokens(_, _, _, _, _, _, _)
WalkTokens(toks, li, ti, x, y, cm, fonts) ==
    IF ti >= Len(toks) THEN [draws |-> {}, xs |-> <<>>]
    ELSE LET st == WalkStep(toks[ti + 1], li, ti, x, y, cm, fonts)
             rest == WalkTokens(toks, li, ti + 1, st.x, y, cm, fonts)
         IN  [draws |-> st.draws \cup rest.draws, xs |-> <<x>> \o rest.xs]

\* "for li, line in enumerate(lines)" from line li on, the row starting at y
RECURSIVE DrawLines(_, _, _, _, _, _)
DrawLines(lines, li, y, cm, cfg, fonts) ==
    IF li >= Len(lines) THEN [draws |-> {}, cursors |-> <<>>, texts |-> <<>>]
    ELSE LET line == lines[li + 1]
             line_h == textheight(fonts.base_font)
             chord_h == textheight(fonts.chord_font)
             walk == WalkTokens(tokenize_line(line), li, 0, cfg.margin, y, cm, fonts)
             rest == DrawLines(lines, li + 1,
                               y + chord_h + cfg.chord_gap + line_h + cfg.line_spacing,
                               cm, cfg, fonts)
         IN  [draws |-> walk.draws \cup rest.draws,
              cursors |-> <<walk.xs>> \o rest.cursors,
              texts |-> <<[x |-> cfg.margin, y |-> y + chord_h + cfg.chord_gap,
                           txt |-> line]>> \o rest.texts]

\* what a call that raised leaves behind: no image
NoImage ==
    [raised |-> FALSE, width |-> 0, height |-> 0, title |-> {}, draws |-> {},
     cursors |-> <<>>, texts |-> <<>>]

\* The returned image: its size, the title, chord and lyric texts drawn on
\* it with their positions, and the cursor the walk had at each token.
render_chorded_lyrics(lyr, cm, t, cfg, avail) ==
    LET lines == splitlines(lyr)
        fonts == LoadFonts(avail)
        line_h == textheight(fonts.base_font)
        chord_h == textheight(fonts.chord_font)
        title_h == title_height(t, fonts.title_font)
        total_h == total_height(cfg.margin, title_h, line_h, chord_h,
                                cfg.chord_gap, cfg.line_spacing, Len(lines))
        y0 == IF Truthy(t) THEN cfg.margin + title_h ELSE cfg.margin
        body == DrawLines(lines, 0, y0, cm, cfg, fonts)
    IN  IF fonts.raised THEN [NoImage EXCEPT !.raised = TRUE]
        ELSE [raised |-> FALSE,
              width |-> cfg.page_width,
              height |-> total_h,
              title |-> IF Truthy(t)
                        THEN {[x |-> (cfg.page_width
                                      - textlength(TitleText(t), fonts.title_font)) \div 2,
                               y |-> cfg.margin, txt |-> TitleText(t)]}
                        ELSE {},
              draws |-> body.draws,
              cursors |-> body.cursors,
              texts |-> body.texts]

------------------------------------------------------------------------------
(* Input sets. *)

\* characters of the lyrics given to render_chorded_lyrics
LyricChars == {"a", " ", "\n"}

Labels == {<<"C">>, <<"A", "m", "7">>}

\* (line index, token index), in range or not
Keys == (0..1) \X (0..2)

ChordMaps ==
    UNION {[K -> Labels] : K \in {K \in SUBSET Keys : Cardinality(K) <= MaxChords}}

Titles == {{}, {<<>>}, {<<"T">>}}

Configs ==
    {DefaultConfig,
     [page_width |-> 800, margin |-> 10, line_spacing |-> 0, chord_gap |-> 3]}

NoChords == [k \in {} |-> <<>>]

------------------------------------------------------------------------------
(* The helpers called on their own. *)

\* the variables of the Streamlit session, unused by a bare call
SessionIdle ==
    /\ widgets = NoChords
    /\ chords = NoChords
    /\ identity = "key"
    /\ sinceReset = "other"

InitTok ==
    /\ pc = "input"
    /\ lyrics \in Strings(Chars, MaxLine)
    /\ tokens = <<>>
    /\ chord_map = NoChords
    /\ title = {}
    /\ config = DefaultConfig
    /\ fontFiles = FontFiles
    /\ image = NoImage
    /\ SessionIdle

\* tokens = tokenize_line(line)
Tokenize ==
    /\ pc = "input"
    /\ tokens' = tokenize_line(lyrics)
    /\ pc' = "tokenized"
    /\ UNCHANGED <<lyrics, chord_map, title, config, fontFiles, image,
                   widgets, chords, identity, sinceReset>>

SpecTok == InitTok /\ [][Tokenize]_vars

\* layout inputs: every lyrics text and chord map, without a title under the
\* preferred fonts and with a title under the fallback font
InitRender ==
    /\ pc = "input"
    /\ lyrics \in Strings(LyricChars, MaxLen)
    /\ tokens = <<>>
    /\ chord_map \in ChordMaps
    /\ \/ title = {} /\ fontFiles = FontFiles
       \/ title = {<<"T">>} /\ fontFiles = {}
    /\ config = DefaultConfig
    /\ image = NoImage
    /\ SessionIdle

\* sizing inputs: every lyrics text, title, configuration and set of font files
InitSize ==
    /\ pc = "input"
    /\ lyrics \in Strings(LyricChars, MaxLen)
    /\ tokens = <<>>
    /\ chord_map \in {NoChords, [k \in {<<0, 0>>} |-> <<"C">>]}
    /\ title \in Titles
    /\ config \in Configs
    /\ fontFiles \in SUBSET FontFiles
    /\ image = NoImage
    /\ SessionIdle

\* image = render_chorded_lyrics(lyrics, chord_map, title, page_width, ...)
RenderCall ==
    /\ pc = "input"
    /\ image' = render_chorded_lyrics(lyrics, chord_map, title, config, fontFiles)
    /\ pc' = IF image'.raised THEN "raised" ELSE "rendered"
    /\ UNCHANGED <<lyrics, tokens, chord_map, title, config, fontFiles,
                   widgets, chords, identity, sinceReset>>

SpecRender == InitRender /\ [][RenderCall]_vars

SpecSize == InitSize /\ [][RenderCall]_vars

------------------------------------------------------------------------------
(* Vocabulary of the properties, stated without the code's own walk. *)

RECURSIVE Concat(_)
Concat(ts) == IF ts = <<>> THEN <<>> ELSE Head(ts) \o Concat(Tail(ts))

AllWhitespace(t) == \A i \in 1..Len(t) : t[i] \in Whitespace
NoWhitespace(t) == \A i \in 1..Len(t) : t[i] \notin Whitespace

Abs(n) == IF n < 0 THEN -n ELSE n

\* the number of lines of a text: one per line break, and one more for a
\* non-empty remainder after the last break
LineCount(s) ==
    Cardinality({i \in 1..Len(s) : s[i] \in LineBreaks})
    + (IF Len(s) > 0 /\ s[Len(s)] \notin LineBreaks THEN 1 ELSE 0)

LinesOf(s) == splitlines(s)
TokensOf(s, li) == tokenize_line(LinesOf(s)[li + 1])

\* the indices of the Word tokens of a text
WordKeys(s) ==
    {k \in (0..(Len(s) - 1)) \X (0..(Len(s) - 1)) :
        /\ k[1] < Len(LinesOf(s))
        /\ k[2] < Len(TokensOf(s, k[1]))
        /\ NoWhitespace(TokensOf(s, k[1])[k[2] + 1])}

Restrict(cm, K) == [k \in (DOMAIN cm) \cap K |-> cm[k]]

\* the sum of f over 1..n
RECURSIVE SumTo(_, _)
SumTo(f, n) == IF n = 0 THEN 0 ELSE f[n] + SumTo(f, n - 1)

Rendered == pc = "rendered"
Returned == pc \in {"rendered", "raised"}
FontsNow == LoadFonts(fontFiles)

------------------------------------------------------------------------------
(* Properties of tokenize_line (SpecTok). *)

\* C4: concatenating the tokens of tokenize_line(s) in order gives back s,
\* and the empty string has no token at all.
C4_Partition ==
    pc = "tokenized" =>
        /\ Concat(tokens) = lyrics
        /\ (lyrics = <<>> => Len(tokens) = 0)

C4_Witness ==
    /\ pc = "tokenized"
    /\ Len(tokens) >= 3
    /\ \E i \in 1..Len(tokens) : Len(tokens[i]) >= 2 /\ "\t" \in {tokens[i][j] : j \in 1..Len(tokens[i])}

\* C5: every token is non-empty and either whitespace only (isspace) or
\* free of whitespace, and two adjacent tokens never have the same class.
C5_Classification ==
    pc = "tokenized" =>
        /\ \A i \in 1..Len(tokens) :
              /\ Len(tokens[i]) > 0
              /\ (isspace(tokens[i]) /\ AllWhitespace(tokens[i])) \/ NoWhitespace(tokens[i])
        /\ \A i \in 1..(Len(tokens) - 1) :
              AllWhitespace(tokens[i]) # AllWhitespace(tokens[i + 1])

C5_Witness ==
    /\ pc = "tokenized"
    /\ Len(tokens) >= 3
    /\ \E i \in 1..Len(tokens) : Len(tokens[i]) >= 2 /\ AllWhitespace(tokens[i])
    /\ \E i \in 1..Len(tokens) : Len(tokens[i]) >= 2 /\ NoWhitespace(tokens[i])

------------------------------------------------------------------------------
(* Properties of the layout (SpecRender). *)

\* the left edge of token ti in the lyric line as render draws it: the
\* margin plus the width of the line text before the token
LeftEdge(s, li, ti) ==
    config.margin
    + textlength(Concat(SubSeq(TokensOf(s, li), 1, ti)), FontsNow.base_font)

\* C1: every chord is drawn at the left edge of its word in the drawn lyric
\* line plus (w - c)/2, within one pixel (two half pixels).
C1_ChordCentred ==
    Rendered =>
        \A d \in image.draws :
            LET w == textlength(TokensOf(lyrics, d.li)[d.ti + 1], FontsNow.base_font)
                c == textlength(d.txt, FontsNow.chord_font)
            IN  Abs(d.x2 - (2 * LeftEdge(lyrics, d.li, d.ti) + (w - c))) <= 2

\* C2: keys that are not the index of a Word token neither raise nor draw,
\* and the chords drawn are those drawn for the map without these keys.
C2_OrphansIgnored ==
    Returned =>
        /\ Rendered
        /\ \A d \in image.draws : <<d.li, d.ti>> \in WordKeys(lyrics)
        /\ {<<d.li, d.ti, d.txt>> : d \in image.draws}
             = {<<k[1], k[2], chord_map[k]>> : k \in (DOMAIN chord_map) \cap WordKeys(lyrics)}
        /\ image.draws
             = render_chorded_lyrics(lyrics, Restrict(chord_map, WordKeys(lyrics)),
                                     title, config, fontFiles).draws

C2_Witness ==
    /\ Rendered
    /\ \E k \in DOMAIN chord_map :
          /\ k \notin WordKeys(lyrics)
          /\ k[1] < Len(LinesOf(lyrics))
          /\ k[2] < Len(TokensOf(lyrics, k[1]))
    /\ \E k \in DOMAIN chord_map : k \in WordKeys(lyrics)
    /\ image.draws # {}

\* C9: when the walk of a line reaches token t, the cursor is the margin
\* plus the widths of the tokens before t plus one single-space width for
\* each Word token before t.
C9_Cursor ==
    Rendered =>
        /\ Len(image.cursors) = Len(LinesOf(lyrics))
        /\ \A li \in 0..(Len(LinesOf(lyrics)) - 1) :
              LET toks == TokensOf(lyrics, li)
                  wid == [i \in 1..Len(toks) |-> textlength(toks[i], FontsNow.base_font)]
                  gap == [i \in 1..Len(toks) |->
                            IF AllWhitespace(toks[i]) THEN 0
                            ELSE textlength(<<" ">>, FontsNow.base_font)]
              IN  /\ Len(image.cursors[li + 1]) = Len(toks)
                  /\ \A t \in 0..(Len(toks) - 1) :
                        image.cursors[li + 1][t + 1]
                          = config.margin + SumTo(wid, t) + SumTo(gap, t)

C9_Witness ==
    /\ Rendered
    /\ \E li \in 0..(Len(LinesOf(lyrics)) - 1) :
          LET toks == TokensOf(lyrics, li)
          IN  /\ Len(toks) >= 3
              /\ \E i \in 1..Len(toks) : Len(toks[i]) >= 2 /\ AllWhitespace(toks[i])
              /\ NoWhitespace(toks[1])
              /\ image.cursors[li + 1][3] > config.margin

------------------------------------------------------------------------------
(* Properties of the canvas size and of the fonts (SpecSize). *)

\* C3: the image is page_width wide and exactly
\* 2*margin + titleHeight + N*(chordRow + gap + lyricRow + lineSpacing) high,
\* with titleHeight zero for no title (None or "") and N the number of lines.
C3_CanvasSize ==
    Rendered =>
        /\ image.width = config.page_width
        /\ image.height =
             2 * config.margin
             + (IF title = {} \/ title = {<<>>} THEN 0
                ELSE textheight(FontsNow.title_font) + 20)
             + LineCount(lyrics)
               * (textheight(FontsNow.chord_font) + config.chord_gap
                  + textheight(FontsNow.base_font) + config.line_spacing)

C3_Witness ==
    /\ Rendered
    /\ title = {<<>>}
    /\ LineCount(lyrics) >= 3
    /\ \E i \in 1..Len(LinesOf(lyrics)) : LinesOf(lyrics)[i] = <<>>
    /\ config # DefaultConfig

\* C8: with a preferred font file missing the call does not raise; it uses
\* the built-in default font and returns an image of the computed size.
C8_FontFallback ==
    (Returned /\ fontFiles # FontFiles) =>
        /\ Rendered
        /\ ~image.raised
        /\ image.width = config.page_width
        /\ image.height =
             2 * config.margin
             + (IF Truthy(title) THEN textheight("default") + 20 ELSE 0)
             + LineCount(lyrics)
               * (textheight("default") + config.chord_gap
                  + textheight("default") + config.line_spacing)

C8_Witness ==
    /\ Rendered
    /\ fontFiles = {"DejaVuSansMono.ttf"}
    /\ Truthy(title)
    /\ LineCount(lyrics) >= 2
    /\ image.height > 0

------------------------------------------------------------------------------
(* The Streamlit script.  Every user interaction reruns the script from    *)
(* the top: the Reset button, the chord-entry form, the title and width    *)
(* inputs and the Render button.  chord_map and image are locals of the    *)
(* run that the Render button triggers; a later run has neither.           *)

\* texts the user pastes into the lyrics area
LyricsChoices ==
    {<<"a", " ", "a">>, <<"a", " ", " ", "a">>, <<"a", "\n", "a">>, <<>>}

\* texts the user types into a chord field
FieldTexts == {<<>>, <<"C">>, <<" ", "G">>}

\* texts of the title input: the default "Chord Chart", or emptied
AppTitles == {{<<"T">>}, {<<>>}}

\* positions of the width slider (800..2200, default 1500)
AppWidths == {1500, 2200}

\* A build of Streamlit identifies a keyed widget by its key alone ("key"),
\* or by its key and its parameters, the default value among them
\* ("params"): there a changed default makes a new widget.
Identities == {"key", "params"}

\* the keys li{li}_ti{ti} of the fields the form creates: one per token
\* that is not whitespace, numbered among all tokens of its line
FormKeys(lyr) ==
    LET lines == splitlines(lyr)
    IN  UNION {{<<li, ti>> : ti \in {t \in 0..(Len(tokenize_line(lines[li + 1])) - 1) :
                                       ~isspace(tokenize_line(lines[li + 1])[t + 1])}}
               : li \in 0..(Len(lines) - 1)}

\* st.session_state.chords.get((li, ti), "")
ChordsGet(ch, k) == IF k \in DOMAIN ch THEN ch[k] ELSE <<>>

\* st.text_input(..., key=key_name, value=...) for every field of the form:
\* a field that was on the page in the previous run (and, under "params", had
\* the same default) keeps its text; any other starts from its default.
\* Fields that are no longer created lose their state.
RunForm(lyr, ch, w, idn) ==
    [k \in FormKeys(lyr) |->
        LET dflt == ChordsGet(ch, k)
        IN  IF k \in DOMAIN w /\ (idn = "key" \/ w[k].value = dflt)
            THEN w[k]
            ELSE [text |-> dflt, value |-> IF idn = "key" THEN <<>> ELSE dflt]]

\* st.session_state.get(key_name, "")
WidgetGet(w, k) == IF k \in DOMAIN w THEN w[k].text ELSE <<>>

\* the number of Word tokens among the first ti tokens
WordsBefore(toks, ti) == Cardinality({t \in 1..ti : ~isspace(toks[t])})

\* the chord map keyed by the number of the word in its line
BuildChordMapByWordNumber(lyr, w) ==
    LET ks == {k \in FormKeys(lyr) : strip(WidgetGet(w, k)) # <<>>}
        num(k) == <<k[1], WordsBefore(tokenize_line(splitlines(lyr)[k[1] + 1]), k[2])>>
    IN  [n \in {num(k) : k \in ks} |->
            strip(WidgetGet(w, CHOOSE k \in ks : num(k) = n))]

\* the Render handler's loop: for every token that is not whitespace, the
\* stripped text of its field, kept when non-empty
BuildChordMap(lyr, w) ==
    LET lines == splitlines(lyr)
        ks == UNION {{<<li, ti>> : ti \in {t \in 0..(Len(tokenize_line(lines[li + 1])) - 1) :
                                       /\ ~isspace(tokenize_line(lines[li + 1])[t + 1])
                                       /\ strip(WidgetGet(w, <<li, t>>)) # <<>>}}
                     : li \in 0..(Len(lines) - 1)}
    IN  [k \in ks |-> strip(WidgetGet(w, k))]

\* st.session_state.chords = chord_map: entries of blanked fields are lost
StoreChordsReplace(ch, cm) == cm

\* st.session_state.chords[(li, ti)] = val, for every entry of chord_map
StoreChords(ch, cm) ==
    [k \in (DOMAIN ch) \cup (DOMAIN cm) |-> IF k \in DOMAIN cm THEN cm[k] ELSE ch[k]]

\* a run in which no button is pressed: the form is rebuilt and nothing is
\* rendered
PlainRun(lyr, ch, w) ==
    /\ widgets' = RunForm(lyr, ch, w, identity)
    /\ chord_map' = NoChords
    /\ image' = NoImage
    /\ pc' = "idle"

Init ==
    /\ pc = "idle"
    /\ lyrics \in LyricsChoices
    /\ tokens = <<>>
    /\ chord_map = NoChords
    /\ title = {<<"T">>}
    /\ config = DefaultConfig
    /\ fontFiles \in {FontFiles, {}}
    /\ image = NoImage
    /\ identity \in Identities
    /\ chords = NoChords
    /\ widgets = RunForm(lyrics, NoChords, NoChords, identity)
    /\ sinceReset = "other"

\* the user replaces the lyrics
EditLyrics ==
    \E new \in LyricsChoices \ {lyrics} :
        /\ lyrics' = new
        /\ PlainRun(new, chords, widgets)
        /\ sinceReset' = IF sinceReset = "reset" THEN "reset" ELSE "other"
        /\ UNCHANGED <<tokens, title, config, fontFiles, chords, identity>>

\* the user types into a chord field
TypeChord ==
    \E k \in DOMAIN widgets : \E txt \in FieldTexts \ {widgets[k].text} :
        /\ PlainRun(lyrics, chords, [widgets EXCEPT ![k].text = txt])
        /\ sinceReset' = "other"
        /\ UNCHANGED <<lyrics, tokens, title, config, fontFiles, chords, identity>>

\* the user edits the title
EditTitle ==
    \E t \in AppTitles \ {title} :
        /\ title' = t
        /\ PlainRun(lyrics, chords, widgets)
        /\ sinceReset' = IF sinceReset = "reset" THEN "reset" ELSE "other"
        /\ UNCHANGED <<lyrics, tokens, config, fontFiles, chords, identity>>

\* the user moves the width slider
SetWidth ==
    \E pw \in AppWidths \ {config.page_width} :
        /\ config' = [config EXCEPT !.page_width = pw]
        /\ PlainRun(lyrics, chords, widgets)
        /\ sinceReset' = IF sinceReset = "reset" THEN "reset" ELSE "other"
        /\ UNCHANGED <<lyrics, tokens, title, fontFiles, chords, identity>>

\* "Reset chord inputs": chords is emptied, then the form is rebuilt
Reset ==
    /\ chords' = NoChords
    /\ PlainRun(lyrics, NoChords, widgets)
    /\ sinceReset' = "reset"
    /\ UNCHANGED <<lyrics, tokens, title, config, fontFiles, identity>>

\* "Render PNG": the form is rebuilt, then the handler builds chord_map from
\* the fields, stores its entries in chords and renders
Render ==
    /\ widgets' = RunForm(lyrics, chords, widgets, identity)
    /\ chord_map' = BuildChordMap(lyrics, widgets')
    /\ chords' = StoreChords(chords, chord_map')
    /\ image' = render_chorded_lyrics(lyrics, chord_map', title, config, fontFiles)
    /\ pc' = IF image'.raised THEN "raised" ELSE "rendered"
    /\ sinceReset' = IF sinceReset = "reset" THEN "render" ELSE "other"
    /\ UNCHANGED <<lyrics, tokens, title, config, fontFiles, identity>>

Next == EditLyrics \/ TypeChord \/ EditTitle \/ SetWidth \/ Reset \/ Render

Spec == Init /\ [][Next]_vars

------------------------------------------------------------------------------
(* Properties of the script (Spec). *)

\* C6: the Render that follows a Reset, with no chord typed in between,
\* passes an empty chord map and draws no chord.
C6_ResetClears ==
    (pc = "rendered" /\ sinceReset = "render") =>
        /\ chord_map = NoChords
        /\ image.draws = {}

C10_Step ==
    \/ chords' = chords
    \/ sinceReset' = "reset" /\ chords' = NoChords
    \/ /\ pc' = "rendered"
       /\ \A k \in DOMAIN chords :
             /\ k \in DOMAIN chords'
             /\ k \notin DOMAIN chord_map' => chords'[k] = chords[k]

\* the chord map of the run just rendered is part of the stored chords
C10_Stored ==
    pc = "rendered" =>
        \A k \in DOMAIN chord_map : k \in DOMAIN chords /\ chords[k] = chord_map[k]

\* C10: Render only adds or overwrites stored chords and only Reset empties
\* them, so the stored chords hold every entry of the latest chord map, and
\* may hold more.
C10_ChordsAccumulate == [][C10_Step]_vars /\ []C10_Stored

C10_Witness ==
    /\ pc = "rendered"
    /\ chord_map # NoChords
    /\ \E k \in (DOMAIN chords) \ (DOMAIN chord_map) :
          k \in DOMAIN widgets /\ strip(widgets[k].text) = <<>>

====
